---- MODULE Spec2Model ----
(***************************************************************************)
(* Index management core of indexify: the metadata catalog                 *)
(* (src/persistence.rs), the index manager and the runtime Index           *)
(* (src/index.rs) and the Qdrant vector store (src/vectordbs/qdrant.rs).   *)
(*                                                                         *)
(* Spec       the two-store creation protocol: concurrent tasks calling    *)
(*            IndexManager::create_index, Respository::get_index and       *)
(*            VectorDb::drop_index, one step per await point.              *)
(* SpecNoDrop the same tasks without drop_index.                            *)
(* SpecDedup  the content-addressed upsert of QdrantDb::add_embedding on   *)
(*            one collection, inputs drawn from small sets.                *)
(* SpecIngest concurrent tasks calling Index::add_texts, Index::search and *)
(*            VectorDb::num_vectors on one loaded Index.                   *)
(* SpecLoad   concurrent tasks calling IndexManager::create_index and       *)
(*            IndexManager::load.                                          *)
(***************************************************************************)
EXTENDS Integers, Sequences, FiniteSets, TLC

VARIABLES
    catalog,      \* committed rows of the index table: name -> row
    collections,  \* vector store: collection name -> (point id -> payload)
    pc,           \* per task: the await point it is suspended at
    call,         \* per task: arguments and progress of its current/last call
    tx,           \* per task: its open metadata transaction
    ret,          \* per task: the result of its last completed call
    seq,          \* per task: number of calls it has started
    nfaults,      \* number of store failures injected so far
    tally,        \* per name: results of the Respository::create_index calls
    raced,        \* names on which two create_index calls overlapped
    hash_on,      \* SpecDedup: the dedup fields of the collection
    upserts,      \* SpecDedup: number of add_embedding calls so far
    textsSeen,    \* SpecDedup: the chunk texts upserted so far
    lastUpsert,   \* SpecDedup: attrs and final chunk text of the last upsert
    writes        \* SpecIngest: the points sent by successful upserts, with their writer

vars == <<catalog, collections, pc, call, tx, ret, seq, nfaults, tally, raced,
          hash_on, upserts, textsSeen, lastUpsert, writes>>

protoVars == <<catalog, pc, call, tx, ret, seq, nfaults, tally, raced>>
dedupVars == <<hash_on, upserts, textsSeen, lastUpsert, writes>>

----------------------------------------------------------------------------
(* Bounds *)

MaxCalls == 3      \* calls started by all tasks together
MaxFaults == 1     \* injected store failures
MaxUpserts == 2    \* add_embedding calls in SpecDedup

Procs == {"t1", "t2"}
Names == {"hello", "idx"}
SplitterKinds == {"noop", "unsupported"}

\* Option<T>: None is the empty sequence, Some(v) is <<v>>.
None == <<>>
Some(v) == <<v>>

\* the (embedding_model, unique_params) pairs callers pass to create_index
CreateRequests ==
    {[embedding_model |-> "all-minilm-l12-v2", unique_params |-> None],
     [embedding_model |-> "m2", unique_params |-> Some(<<"user_id", "url">>)]}

----------------------------------------------------------------------------
(* Result values *)

Ok == [tag |-> "Ok"]
DatabaseError == [tag |-> "DatabaseError"]
IndexAlreadyExists(n) == [tag |-> "IndexAlreadyExists", name |-> n]
IndexNotFound(n) == [tag |-> "IndexNotFound", name |-> n]
VectorDbErr(kind) == [tag |-> "VectorDb", kind |-> kind]
IndexCreationError == "IndexCreationError"
IndexDeletionError == "IndexDeletionError"
IndexReadError == "IndexReadError"
IndexWriteError == "IndexWriteError"
TextSplitterError == [tag |-> "TextSplitter"]
UniqueParamsSerializationError == [tag |-> "UniqueParamsSerializationError"]
LogicError == [tag |-> "LogicError"]
Loaded(index) == [tag |-> "Loaded", index |-> index]
EmbeddingGeneratorError == [tag |-> "EmbeddingGenerator"]
Count(n) == [tag |-> "Count", n |-> n]
Results(rs) == [tag |-> "Results", results |-> rs]
Found(row) == [tag |-> "Found", row |-> row]
NoResult == [tag |-> "None"]

IsErr(r) == r.tag \in {"DatabaseError", "IndexAlreadyExists", "IndexNotFound",
                       "VectorDb", "TextSplitter", "EmbeddingGenerator",
                       "UniqueParamsSerializationError", "LogicError"}

----------------------------------------------------------------------------
(* Pure helpers *)

\* JSON string escaping: a quote or a backslash is preceded by a backslash
RECURSIVE escape(_)
escape(str) ==
    IF Len(str) = 0 THEN ""
    ELSE LET c == SubSeq(str, 1, 1) IN
         (IF c = "\"" \/ c = "\\" THEN "\\" \o c ELSE c)
         \o escape(SubSeq(str, 2, Len(str)))

RECURSIVE JoinQuoted(_)
JoinQuoted(s) ==
    IF Len(s) = 0 THEN ""
    ELSE IF Len(s) = 1 THEN "\"" \o escape(s[1]) \o "\""
    ELSE "\"" \o escape(s[1]) \o "\"," \o JoinQuoted(Tail(s))

\* serde_json::to_string of a Vec<String>
to_string(list) == "[" \o JoinQuoted(list) \o "]"

SerdeErr == [ok |-> FALSE, val |-> <<>>, next |-> 0]

\* one JSON string literal of s, read from position i, just after its opening quote
RECURSIVE parse_string(_, _, _)
parse_string(s, i, acc) ==
    IF i > Len(s) THEN SerdeErr
    ELSE LET c == SubSeq(s, i, i) IN
         IF c = "\"" THEN [ok |-> TRUE, val |-> acc, next |-> i + 1]
         ELSE IF c = "\\"
              THEN IF i + 1 > Len(s) THEN SerdeErr
                   ELSE parse_string(s, i + 2, acc \o SubSeq(s, i + 1, i + 1))
              ELSE parse_string(s, i + 1, acc \o c)

\* the elements of a JSON array of strings, read from position i
RECURSIVE parse_items(_, _, _)
parse_items(s, i, acc) ==
    IF i > Len(s) \/ SubSeq(s, i, i) # "\"" THEN SerdeErr
    ELSE LET r == parse_string(s, i + 1, "") IN
         IF ~r.ok \/ r.next > Len(s) THEN SerdeErr
         ELSE IF SubSeq(s, r.next, r.next) = ","
              THEN parse_items(s, r.next + 1, Append(acc, r.val))
              ELSE IF SubSeq(s, r.next, r.next) = "]" /\ r.next = Len(s)
                   THEN [ok |-> TRUE, val |-> Append(acc, r.val), next |-> r.next + 1]
                   ELSE SerdeErr

\* serde_json::from_str::<Vec<String>>
from_str(s) ==
    IF s = "[]" THEN [ok |-> TRUE, val |-> <<>>, next |-> 3]
    ELSE IF Len(s) < 2 \/ SubSeq(s, 1, 1) # "[" THEN SerdeErr
    ELSE parse_items(s, 2, <<>>)

\* persistence.rs 54-57: Option<Vec<String>> -> Option<String>
unique_params_column(u_params) ==
    IF u_params = None THEN None ELSE Some(to_string(u_params[1]))

\* QdrantDb::name
vectordb_name == "qdrant"

\* persistence.rs 58-65: the ActiveModel that is inserted
ActiveModel(c) ==
    [name |-> c.name,
     embedding_model |-> c.embedding_model,
     text_splitter |-> c.text_splitter,
     vector_db |-> vectordb_name,
     unique_params |-> unique_params_column(c.unique_params)]

\* text_splitters::get_splitter: Ok exactly for the known splitter variants
KnownSplitters == {"noop"}
get_splitter(kind) == kind \in KnownSplitters

\* Respository::get_index: point lookup by name
get_index(cat, n) ==
    IF n \in DOMAIN cat THEN Found(cat[n]) ELSE IndexNotFound(n)

----------------------------------------------------------------------------
(* Initial state *)

NoCall == [op |-> "none", name |-> "", embedding_model |-> "",
           text_splitter |-> "", unique_params |-> None,
           present0 |-> FALSE, ins |-> "none", cc |-> "none", fault |-> FALSE]

NoTx == [open |-> FALSE, rows |-> {}]

EmptyTally == [ok |-> 0, exists |-> 0, other |-> 0, winner |-> None]

EmptyFn == [x \in {} |-> x]

\* no task has called anything yet
InitTasks ==
    /\ pc = [p \in Procs |-> "idle"]
    /\ call = [p \in Procs |-> NoCall]
    /\ tx = [p \in Procs |-> NoTx]
    /\ ret = [p \in Procs |-> NoResult]
    /\ seq = [p \in Procs |-> 0]
    /\ nfaults = 0
    /\ tally = [n \in Names |-> EmptyTally]
    /\ raced = {}

InitProto ==
    /\ catalog = EmptyFn
    /\ InitTasks

InitDedupIdle ==
    /\ hash_on = <<>>
    /\ upserts = 0
    /\ textsSeen = {}
    /\ lastUpsert = None
    /\ writes = {}

Init ==
    /\ InitProto
    /\ InitDedupIdle
    /\ collections = EmptyFn

----------------------------------------------------------------------------
(* The creation protocol, one action per await point *)

RECURSIVE SumOver(_, _)
SumOver(f, S) ==
    IF S = {} THEN 0
    ELSE LET x == CHOOSE y \in S : TRUE IN f[x] + SumOver(f, S \ {x})

CanStart(p) == pc[p] = "idle" /\ SumOver(seq, Procs) < MaxCalls

\* a store call may fail while the fault budget lasts
FaultChoices == IF nfaults < MaxFaults THEN {FALSE, TRUE} ELSE {FALSE}

InFlight(q, n) == pc[q] # "idle" /\ call[q].op = "create_index" /\ call[q].name = n

Bump(n, field, row) ==
    [tally EXCEPT ![n] = [@ EXCEPT ![field] = @ + 1,
                                   !.winner = IF field = "ok" THEN Some(row) ELSE @]]

\* the splitter's error ignored: the repository is called in any case
create_index_entry_unchecked(splitter_ok) == "begin"

\* index.rs 105-118: `get_splitter(..)?` returns before the repository is called
create_index_entry(splitter_ok) == IF splitter_ok THEN "begin" ELSE "idle"

\* IndexManager::create_index up to its first await (conn.begin())
CreateIndexWith(p, names, requests) ==
    /\ CanStart(p)
    /\ \E n \in names, r \in requests, k \in SplitterKinds :
          LET next == create_index_entry(get_splitter(k)) IN
          /\ call' = [call EXCEPT ![p] =
                        [op |-> "create_index", name |-> n,
                         embedding_model |-> r.embedding_model,
                         text_splitter |-> k, unique_params |-> r.unique_params,
                         present0 |-> n \in DOMAIN catalog,
                         ins |-> "none", cc |-> "none", fault |-> FALSE]]
          /\ pc' = [pc EXCEPT ![p] = next]
          /\ ret' = [ret EXCEPT ![p] =
                        IF next = "idle" THEN TextSplitterError ELSE NoResult]
          /\ raced' = IF next # "idle" /\ \E q \in Procs \ {p} : InFlight(q, n)
                      THEN raced \cup {n} ELSE raced
    /\ seq' = [seq EXCEPT ![p] = @ + 1]
    /\ UNCHANGED <<catalog, collections, tx, nfaults, tally>>
    /\ UNCHANGED dedupVars

CreateIndex(p) == CreateIndexWith(p, Names, CreateRequests)

\* persistence.rs 66: self.conn.begin().await?
TxBegin(p) ==
    /\ pc[p] = "begin"
    /\ \E f \in FaultChoices :
          IF f
          THEN /\ pc' = [pc EXCEPT ![p] = "idle"]
               /\ ret' = [ret EXCEPT ![p] = DatabaseError]
               /\ call' = [call EXCEPT ![p].fault = TRUE]
               /\ nfaults' = nfaults + 1
               /\ tally' = Bump(call[p].name, "other", None)
               /\ UNCHANGED tx
          ELSE /\ pc' = [pc EXCEPT ![p] = "insert"]
               /\ tx' = [tx EXCEPT ![p] = [open |-> TRUE, rows |-> {}]]
               /\ UNCHANGED <<ret, call, nfaults, tally>>
    /\ UNCHANGED <<catalog, collections, seq, raced>>
    /\ UNCHANGED dedupVars

\* the store's answer to the INSERT: a primary-key violation (code 1555) when
\* the name is committed, another DbErr when the store fails
insert_result(failed, present) ==
    IF failed THEN "other" ELSE IF present THEN "unique" ELSE "ok"

\* the primary-key violation not recognised: every insert error falls through
after_insert_fallthrough(outcome) == "create_collection"

\* persistence.rs 68-75: only the primary-key violation returns early
after_insert(outcome) ==
    IF outcome = "unique" THEN "rollback_exists" ELSE "create_collection"

\* an uncommitted insert of the same key by another transaction blocks this one
Blocked(p, n) ==
    \E q \in Procs \ {p} : \E r \in tx[q].rows : r.name = n

\* persistence.rs 67: IndexEntity::insert(index).exec(&tx).await
TxInsert(p) ==
    /\ pc[p] = "insert"
    /\ \E f \in FaultChoices :
          LET n == call[p].name
              outcome == insert_result(f, n \in DOMAIN catalog) IN
          /\ f \/ ~Blocked(p, n)
          /\ tx' = [tx EXCEPT ![p].rows =
                      IF outcome = "ok" THEN @ \cup {ActiveModel(call[p])} ELSE @]
          /\ call' = [call EXCEPT ![p].ins = outcome, ![p].fault = @ \/ f]
          /\ pc' = [pc EXCEPT ![p] = after_insert(outcome)]
          /\ nfaults' = IF f THEN nfaults + 1 ELSE nfaults
    /\ UNCHANGED <<catalog, collections, ret, seq, tally, raced>>
    /\ UNCHANGED dedupVars

\* persistence.rs 72-73: tx.rollback().await?; Err(IndexAlreadyExists(name))
RollbackExists(p) ==
    /\ pc[p] = "rollback_exists"
    /\ \E f \in FaultChoices :
          /\ ret' = [ret EXCEPT ![p] =
                        IF f THEN DatabaseError ELSE IndexAlreadyExists(call[p].name)]
          /\ call' = [call EXCEPT ![p].fault = @ \/ f]
          /\ nfaults' = IF f THEN nfaults + 1 ELSE nfaults
          /\ tally' = Bump(call[p].name, IF f THEN "other" ELSE "exists", None)
    /\ tx' = [tx EXCEPT ![p] = NoTx]
    /\ pc' = [pc EXCEPT ![p] = "idle"]
    /\ UNCHANGED <<catalog, collections, seq, raced>>
    /\ UNCHANGED dedupVars

\* an existing collection accepted: create_collection as create-if-absent
create_collection_ok_if_absent(failed, exists) == ~failed

\* qdrant.rs 60-79: create_collection is rejected for an existing collection
create_collection_ok(failed, exists) == ~failed /\ ~exists

\* the result of vectordb.create_index ignored: commit in any case
after_create_always_commit(ok) == "commit"

\* persistence.rs 76-81: a failed create_index rolls back, a successful one commits
after_create(ok) == IF ok THEN "commit" ELSE "rollback_vdb"

\* persistence.rs 76: vectordb.create_index(index_params.clone()).await
VdbCreateIndex(p) ==
    /\ pc[p] = "create_collection"
    /\ \E f \in FaultChoices :
          LET n == call[p].name
              ok == create_collection_ok(f, n \in DOMAIN collections) IN
          /\ collections' = IF ok THEN collections @@ (n :> EmptyFn) ELSE collections
          /\ call' = [call EXCEPT ![p].cc = IF ok THEN "ok" ELSE "fail",
                                  ![p].fault = @ \/ f]
          /\ pc' = [pc EXCEPT ![p] = after_create(ok)]
          /\ nfaults' = IF f THEN nfaults + 1 ELSE nfaults
    /\ UNCHANGED <<catalog, tx, ret, seq, tally, raced>>
    /\ UNCHANGED dedupVars

\* persistence.rs 77-78: tx.rollback().await?; Err(VectorDb(err))
RollbackVdb(p) ==
    /\ pc[p] = "rollback_vdb"
    /\ \E f \in FaultChoices :
          /\ ret' = [ret EXCEPT ![p] =
                        IF f THEN DatabaseError ELSE VectorDbErr(IndexCreationError)]
          /\ call' = [call EXCEPT ![p].fault = @ \/ f]
          /\ nfaults' = IF f THEN nfaults + 1 ELSE nfaults
    /\ tally' = Bump(call[p].name, "other", None)
    /\ tx' = [tx EXCEPT ![p] = NoTx]
    /\ pc' = [pc EXCEPT ![p] = "idle"]
    /\ UNCHANGED <<catalog, collections, seq, raced>>
    /\ UNCHANGED dedupVars

\* the catalog after a transaction's rows are committed
Committed(cat, rows) ==
    [n \in DOMAIN cat \cup {r.name : r \in rows} |->
        IF \E r \in rows : r.name = n
        THEN CHOOSE r \in rows : r.name = n
        ELSE cat[n]]

\* persistence.rs 81-82: tx.commit().await?; Ok(())
TxCommit(p) ==
    /\ pc[p] = "commit"
    /\ \E f \in FaultChoices :
          IF f
          THEN /\ ret' = [ret EXCEPT ![p] = DatabaseError]
               /\ call' = [call EXCEPT ![p].fault = TRUE]
               /\ nfaults' = nfaults + 1
               /\ tally' = Bump(call[p].name, "other", None)
               /\ UNCHANGED catalog
          ELSE /\ ret' = [ret EXCEPT ![p] = Ok]
               /\ catalog' = Committed(catalog, tx[p].rows)
               /\ tally' = Bump(call[p].name, "ok", ActiveModel(call[p]))
               /\ UNCHANGED <<call, nfaults>>
    /\ tx' = [tx EXCEPT ![p] = NoTx]
    /\ pc' = [pc EXCEPT ![p] = "idle"]
    /\ UNCHANGED <<collections, seq, raced>>
    /\ UNCHANGED dedupVars

\* Respository::get_index (persistence.rs 85-92)
GetIndex(p) ==
    /\ CanStart(p)
    /\ \E n \in Names, f \in FaultChoices :
          /\ call' = [call EXCEPT ![p] =
                        [NoCall EXCEPT !.op = "get_index", !.name = n, !.fault = f]]
          /\ ret' = [ret EXCEPT ![p] = IF f THEN DatabaseError ELSE get_index(catalog, n)]
          /\ nfaults' = IF f THEN nfaults + 1 ELSE nfaults
    /\ seq' = [seq EXCEPT ![p] = @ + 1]
    /\ UNCHANGED <<catalog, collections, pc, tx, tally, raced>>
    /\ UNCHANGED dedupVars

contains(s, pat) ==
    \E i \in 1..(Len(s) - Len(pat) + 1) : SubSeq(s, i, i + Len(pat) - 1) = pat

\* what delete_collection answers: Ok, or Err with the backend's message
DeleteOk == [ok |-> TRUE, msg |-> ""]
DeleteErr(msg) == [ok |-> FALSE, msg |-> msg]
MsgMissing == "Not found: Collection doesn't exist!"
MsgUnavailable == "transport error"

delete_collection(exists, failed) ==
    IF failed THEN {DeleteErr(MsgUnavailable)}
    ELSE IF exists THEN {DeleteOk}
    ELSE {DeleteOk, DeleteErr(MsgMissing)}

\* every delete_collection error reported, the missing collection included
drop_index_result_strict(result) ==
    IF ~result.ok THEN VectorDbErr(IndexDeletionError) ELSE Ok

\* qdrant.rs 161-167: "doesn't exist" is normalised to success
drop_index_result(result) ==
    IF ~result.ok
    THEN IF contains(result.msg, "doesn't exist")
         THEN Ok
         ELSE VectorDbErr(IndexDeletionError)
    ELSE Ok

Without(f, x) == [y \in DOMAIN f \ {x} |-> f[y]]

\* QdrantDb::drop_index (qdrant.rs 155-168)
DropIndex(p) ==
    /\ CanStart(p)
    /\ \E n \in Names, f \in FaultChoices :
          \E result \in delete_collection(n \in DOMAIN collections, f) :
             /\ call' = [call EXCEPT ![p] =
                           [NoCall EXCEPT !.op = "drop_index", !.name = n,
                                          !.present0 = n \in DOMAIN collections,
                                          !.fault = f]]
             /\ collections' = IF result.ok THEN Without(collections, n) ELSE collections
             /\ ret' = [ret EXCEPT ![p] = drop_index_result(result)]
             /\ nfaults' = IF f THEN nfaults + 1 ELSE nfaults
    /\ seq' = [seq EXCEPT ![p] = @ + 1]
    /\ UNCHANGED <<catalog, pc, tx, tally, raced>>
    /\ UNCHANGED dedupVars

Next ==
    \E p \in Procs :
        \/ CreateIndex(p)
        \/ TxBegin(p)
        \/ TxInsert(p)
        \/ RollbackExists(p)
        \/ VdbCreateIndex(p)
        \/ RollbackVdb(p)
        \/ TxCommit(p)
        \/ GetIndex(p)
        \/ DropIndex(p)

Spec == Init /\ [][Next]_vars

\* the same tasks when no collection is dropped administratively
NextNoDrop ==
    \E p \in Procs :
        \/ CreateIndex(p)
        \/ TxBegin(p)
        \/ TxInsert(p)
        \/ RollbackExists(p)
        \/ VdbCreateIndex(p)
        \/ RollbackVdb(p)
        \/ TxCommit(p)
        \/ GetIndex(p)

SpecNoDrop == Init /\ [][NextNoDrop]_vars

----------------------------------------------------------------------------
(* Loading an index from its catalog row: IndexManager::load *)

\* the indexes that are created and loaded; the other names are only loaded
LoadNames == {"hello"}

\* the (embedding_model, unique_params) pairs of the indexes that are loaded
LoadRequests ==
    {[embedding_model |-> "all-minilm-l12-v2", unique_params |-> None],
     [embedding_model |-> "all-minilm-l12-v2", unique_params |-> Some(<<>>)],
     [embedding_model |-> "all-minilm-l12-v2",
      unique_params |-> Some(<<"user_id", "url">>)],
     [embedding_model |-> "all-minilm-l12-v2",
      unique_params |-> Some(<<"a\",\"b", "c\\">>)]}

\* the column read back as no list at all
load_unique_params_dropped(column) == [ok |-> TRUE, val |-> <<>>, next |-> 0]

\* index.rs 124-127: an empty Vec unless the column holds a JSON list
load_unique_params(column) ==
    IF column = None THEN [ok |-> TRUE, val |-> <<>>, next |-> 0]
    ELSE from_str(column[1])

\* TextSplitterKind::from_str: Ok exactly for the names of the variants
splitter_kind_from_str(name) == name \in SplitterKinds

\* IndexManager::load (index.rs 122-145) on the catalog it reads
load(cat, n) ==
    LET e == get_index(cat, n) IN
    IF e.tag # "Found" THEN e
    ELSE LET u == load_unique_params(e.row.unique_params) IN
         IF ~u.ok THEN UniqueParamsSerializationError
         ELSE IF ~splitter_kind_from_str(e.row.text_splitter) THEN LogicError
         ELSE IF ~get_splitter(e.row.text_splitter) THEN TextSplitterError
         ELSE Loaded([name |-> n,
                      embedding_model |-> e.row.embedding_model,
                      text_splitter |-> e.row.text_splitter,
                      hash_on |-> u.val])

Load(p) ==
    /\ CanStart(p)
    /\ \E n \in Names, f \in FaultChoices :
          /\ call' = [call EXCEPT ![p] =
                        [NoCall EXCEPT !.op = "load", !.name = n, !.fault = f]]
          /\ ret' = [ret EXCEPT ![p] = IF f THEN DatabaseError ELSE load(catalog, n)]
          /\ nfaults' = IF f THEN nfaults + 1 ELSE nfaults
    /\ seq' = [seq EXCEPT ![p] = @ + 1]
    /\ UNCHANGED <<catalog, collections, pc, tx, tally, raced>>
    /\ UNCHANGED dedupVars

NextLoad ==
    \E p \in Procs :
        \/ CreateIndexWith(p, LoadNames, LoadRequests)
        \/ TxBegin(p)
        \/ TxInsert(p)
        \/ RollbackExists(p)
        \/ VdbCreateIndex(p)
        \/ RollbackVdb(p)
        \/ TxCommit(p)
        \/ Load(p)

SpecLoad == Init /\ [][NextLoad]_vars

----------------------------------------------------------------------------
(* Content-addressed upsert: QdrantDb::add_embedding *)

DedupIndex == "idx"
Texts == {"test", "test1"}
AttrValues == {"5", "g"}
TagValues == {"x"}
HashOnChoices == {<<>>, <<"user_id">>, <<"user_id", "url">>}

\* HashMap<String, String>: the metadata of one batch
AttrsChoices ==
    UNION {[K -> AttrValues] : K \in SUBSET {"user_id", "url"}}
    \cup UNION {{f @@ ("tag" :> t) : f \in [K -> AttrValues], t \in TagValues} :
                K \in SUBSET {"user_id", "url"}}

\* the chunk lists of one call: one or two chunks
TextsChoices == [{1} -> Texts] \cup [{1, 2} -> Texts]

\* the orders in which one HashMap instance may iterate its keys
IterOrders(attrs) ==
    {o \in [1..Cardinality(DOMAIN attrs) -> DOMAIN attrs] :
        \A i, j \in DOMAIN o : i # j => o[i] # o[j]}

SeqContains(s, x) == \E i \in DOMAIN s : s[i] = x

\* format!("{:x}", hasher.finalize()): MD5 has no collisions on these inputs
Md5Hex(data) == "md5(" \o data \o ")"

\* qdrant.rs 102-106: hasher.update(value) for each (key, value) of attrs.iter()
\* whose key is in hash_on
RECURSIVE HashAttrs(_, _, _)
HashAttrs(order, attrs, hon) ==
    IF Len(order) = 0 THEN ""
    ELSE (IF SeqContains(hon, Head(order)) THEN attrs[Head(order)] ELSE "")
         \o HashAttrs(Tail(order), attrs, hon)

\* qdrant.rs 98-108: the id of one point
point_id(text, attrs, order, hon) ==
    Md5Hex(IF DOMAIN attrs = {} THEN text ELSE HashAttrs(order, attrs, hon))

\* qdrant.rs 91-97: QdrantPayload
QdrantPayload(i, text, attrs) ==
    [text |-> text, chunk |-> i - 1, metadata |-> attrs]

\* a point whose id is present keeps the old text under the new metadata
RECURSIVE upsert_points_merged(_, _)
upsert_points_merged(points, new) ==
    IF Len(new) = 0 THEN points
    ELSE LET h == Head(new) IN
         upsert_points_merged(
             [id \in DOMAIN points \cup {h.id} |->
                 IF id # h.id THEN points[id]
                 ELSE IF id \in DOMAIN points
                      THEN [h.payload EXCEPT !.text = points[id].text]
                      ELSE h.payload],
             Tail(new))

\* upsert_points: insert-or-replace by id, the points applied in order
RECURSIVE upsert_points(_, _)
upsert_points(points, new) ==
    IF Len(new) = 0 THEN points
    ELSE LET h == Head(new) IN
         upsert_points([id \in DOMAIN points \cup {h.id} |->
                           IF id = h.id THEN h.payload ELSE points[id]],
                       Tail(new))

\* qdrant.rs 89-111: the points built for one call
build_points(texts, attrs, order, hon) ==
    [i \in 1..Len(texts) |->
        [id |-> point_id(texts[i], attrs, order, hon),
         payload |-> QdrantPayload(i, texts[i], attrs)]]

\* QdrantDb::add_embedding (qdrant.rs 81-119)
AddEmbedding ==
    /\ upserts < MaxUpserts
    /\ DedupIndex \in DOMAIN collections
    /\ \E texts \in TextsChoices, attrs \in AttrsChoices :
          \E order \in IterOrders(attrs) :
             /\ collections' = [collections EXCEPT ![DedupIndex] =
                   upsert_points(@, build_points(texts, attrs, order, hash_on))]
             /\ textsSeen' = textsSeen \cup {texts[i] : i \in DOMAIN texts}
             /\ lastUpsert' = Some([attrs |-> attrs, order |-> order,
                                    text |-> texts[Len(texts)]])
    /\ upserts' = upserts + 1
    /\ UNCHANGED <<hash_on, writes>>
    /\ UNCHANGED protoVars

\* a collection created with VectorDb::create_index, as in the tests of qdrant.rs
InitDedup ==
    /\ InitProto
    /\ collections = (DedupIndex :> EmptyFn)
    /\ hash_on \in HashOnChoices
    /\ upserts = 0
    /\ textsSeen = {}
    /\ lastUpsert = None
    /\ writes = {}

NextDedup == AddEmbedding

SpecDedup == InitDedup /\ [][NextDedup]_vars

Points == IF DedupIndex \in DOMAIN collections THEN collections[DedupIndex] ELSE EmptyFn

----------------------------------------------------------------------------
(* Ingestion and search on one loaded Index: Index::add_texts, Index::search *)

NoMetadata == EmptyFn
UserUrl == [user_id |-> "5", url |-> "g"]

\* Text { texts, metadata }: one batch of documents
Text(texts, metadata) == [texts |-> texts, metadata |-> metadata]

\* index.rs 274-287: the three single-document batches of test_qdrant_search_basic
SearchBasicTexts ==
    <<Text(<<"hello world">>, NoMetadata),
      Text(<<"hello pipe">>, NoMetadata),
      Text(<<"nba">>, NoMetadata)>>

\* the Vec<Text> of one add_texts call
InputLists ==
    {<<Text(<<"hello world", "hello pipe">>, NoMetadata)>>,
     <<Text(<<"test">>, UserUrl), Text(<<"test1">>, UserUrl)>>,
     <<Text(<<"hello world">>, UserUrl)>>,
     SearchBasicTexts}

\* the hash_on of the loaded Index
IngestHashOn == {<<>>, <<"user_id">>}

KChoices == {1, 2}

\* TextSplitter::split of the Noop splitter: the document as a single chunk
split(doc, max_chunk_size, overlap) == <<doc>>

\* index.rs 177-183: the chunks of every document of the batch, flattened
RECURSIVE split_texts(_)
split_texts(docs) ==
    IF Len(docs) = 0 THEN <<>>
    ELSE split(Head(docs), 1000, 0) \o split_texts(Tail(docs))

\* for every entry of split_texts(docs), its position within its own document
RECURSIVE positions(_)
positions(docs) ==
    IF Len(docs) = 0 THEN <<>>
    ELSE [j \in 1..Len(split(Head(docs), 1000, 0)) |-> j - 1] \o positions(Tail(docs))

\* the error ignored: the call goes on with the next step
propagate_ignored(ok, next) == next

\* index.rs 180, 188, 198: `.await?` returns the error to the caller of add_texts
propagate(ok, next) == IF ok THEN next ELSE "idle"

\* qdrant.rs 112-117: the error add_embedding makes of a rejected upsert_points
add_embedding_error == VectorDbErr(IndexCreationError)

\* every point of the collection, whatever the limit
search_points_unlimited(points, k) ==
    {h \in [1..Cardinality(DOMAIN points) -> DOMAIN points] :
        \A i, j \in DOMAIN h : i # j => h[i] # h[j]}

\* qdrant.rs 127-138: search_points with limit k: the k nearest points, nearest
\* first; the ranking is the backend's
search_points(points, k) ==
    LET n == IF k < Cardinality(DOMAIN points) THEN k ELSE Cardinality(DOMAIN points)
    IN  {h \in [1..n -> DOMAIN points] : \A i, j \in DOMAIN h : i # j => h[i] # h[j]}

\* qdrant.rs 140-151: one SearchResult per scored point
search_results(points, hits) ==
    [i \in 1..Len(hits) |->
        [texts |-> points[hits[i]].text, metadata |-> points[hits[i]].metadata]]

\* the number of distinct texts, not of points
num_vectors_texts(points) == Cardinality({points[id].text : id \in DOMAIN points})

\* qdrant.rs 170-181: collection_info(index).points_count
num_vectors(points) == Cardinality(DOMAIN points)

\* the points upserted into every collection of the store
add_embedding_everywhere(colls, index, points) ==
    [c \in DOMAIN colls |-> upsert_points(colls[c], points)]

\* qdrant.rs 112-117: upsert_points(&index, points, None) on the named collection
add_embedding(colls, index, points) ==
    [colls EXCEPT ![index] = upsert_points(@, points)]

\* the catalog row the Index was loaded from (index.rs 122-145)
IndexRow(hon) ==
    ActiveModel([name |-> DedupIndex, embedding_model |-> "all-minilm-l12-v2",
                 text_splitter |-> "noop",
                 unique_params |-> IF hon = <<>> THEN None ELSE Some(hon)])

\* the collection of another index, holding one record
OtherCollections ==
    "hello" :> (Md5Hex("nba") :> QdrantPayload(1, "nba", NoMetadata))

IngestCall(op) ==
    [op |-> op, name |-> DedupIndex, batches |-> <<>>, i |-> 0, chunks |-> <<>>,
     k |-> 0, hits |-> <<>>, failed |-> FALSE]

ingestUnchanged == <<catalog, tx, tally, raced, hash_on, upserts, textsSeen, lastUpsert>>

\* index.rs 175: add_texts is entered with its list of batches
AddTexts(p) ==
    /\ CanStart(p)
    /\ \E texts \in InputLists :
          call' = [call EXCEPT ![p] =
                      [IngestCall("add_texts") EXCEPT !.batches = texts, !.i = 1]]
    /\ pc' = [pc EXCEPT ![p] = "split"]
    /\ ret' = [ret EXCEPT ![p] = NoResult]
    /\ seq' = [seq EXCEPT ![p] = @ + 1]
    /\ UNCHANGED <<collections, nfaults, writes>>
    /\ UNCHANGED ingestUnchanged

\* index.rs 177-183: every document of the batch is split
Split(p) ==
    /\ pc[p] = "split"
    /\ \E f \in FaultChoices :
          /\ pc' = [pc EXCEPT ![p] = propagate(~f, "embed")]
          /\ call' = [call EXCEPT
                ![p].chunks = IF f THEN @
                              ELSE split_texts(call[p].batches[call[p].i].texts),
                ![p].failed = f]
          /\ ret' = [ret EXCEPT ![p] = IF f THEN TextSplitterError ELSE @]
          /\ nfaults' = IF f THEN nfaults + 1 ELSE nfaults
    /\ UNCHANGED <<collections, seq, writes>>
    /\ UNCHANGED ingestUnchanged

\* index.rs 185-188: one generate_embeddings call for the chunks of the batch
GenerateEmbeddings(p) ==
    /\ pc[p] = "embed"
    /\ \E f \in FaultChoices :
          /\ pc' = [pc EXCEPT ![p] = propagate(~f, "upsert")]
          /\ call' = [call EXCEPT ![p].failed = f]
          /\ ret' = [ret EXCEPT ![p] = IF f THEN EmbeddingGeneratorError ELSE @]
          /\ nfaults' = IF f THEN nfaults + 1 ELSE nfaults
    /\ UNCHANGED <<collections, seq, writes>>
    /\ UNCHANGED ingestUnchanged

\* index.rs 190-198 and qdrant.rs 81-119: the chunks of the batch are upserted
\* in one upsert_points call, then the next batch starts or the call returns
Upsert(p) ==
    /\ pc[p] = "upsert"
    /\ LET b == call[p].batches[call[p].i]
           last == call[p].i = Len(call[p].batches)
       IN  \E f \in FaultChoices, order \in IterOrders(b.metadata) :
              LET ok == ~f /\ call[p].name \in DOMAIN collections
                  points == build_points(call[p].chunks, b.metadata, order, hash_on)
                  pos == positions(b.texts)
              IN  /\ collections' =
                        IF ok THEN add_embedding(collections, call[p].name, points)
                        ELSE collections
                  /\ writes' =
                        IF ok THEN writes \cup
                                   {[id |-> points[j].id, payload |-> points[j].payload,
                                     by |-> p, n |-> seq[p], batch |-> call[p].i,
                                     pos |-> pos[j]] : j \in DOMAIN points}
                        ELSE writes
                  /\ pc' = [pc EXCEPT ![p] =
                               propagate(ok, IF last THEN "idle" ELSE "split")]
                  /\ call' = [call EXCEPT
                        ![p].i = IF ok /\ ~last THEN @ + 1 ELSE @,
                        ![p].chunks = IF ok /\ ~last THEN <<>> ELSE @,
                        ![p].failed = ~ok]
                  /\ ret' = [ret EXCEPT ![p] =
                                IF ~ok THEN add_embedding_error
                                ELSE IF last THEN Ok ELSE @]
                  /\ nfaults' = IF f THEN nfaults + 1 ELSE nfaults
    /\ UNCHANGED seq
    /\ UNCHANGED ingestUnchanged

\* Index::search (index.rs 203-217) and QdrantDb::search (qdrant.rs 121-153)
Search(p) ==
    /\ CanStart(p)
    /\ \E k \in KChoices, fe \in FaultChoices, fb \in FaultChoices :
          /\ ~(fe /\ fb)
          /\ \E hits \in IF fe \/ fb \/ DedupIndex \notin DOMAIN collections
                         THEN {<<>>} ELSE search_points(Points, k) :
                /\ call' = [call EXCEPT ![p] =
                      [IngestCall("search") EXCEPT
                          !.k = k, !.hits = hits,
                          !.failed = fe \/ fb \/ DedupIndex \notin DOMAIN collections]]
                /\ ret' = [ret EXCEPT ![p] =
                      IF fe THEN EmbeddingGeneratorError
                      ELSE IF fb \/ DedupIndex \notin DOMAIN collections
                           THEN VectorDbErr(IndexReadError)
                           ELSE Results(search_results(Points, hits))]
          /\ nfaults' = IF fe \/ fb THEN nfaults + 1 ELSE nfaults
    /\ seq' = [seq EXCEPT ![p] = @ + 1]
    /\ UNCHANGED <<collections, pc, writes>>
    /\ UNCHANGED ingestUnchanged

\* QdrantDb::num_vectors (qdrant.rs 170-181)
NumVectors(p) ==
    /\ CanStart(p)
    /\ \E f \in FaultChoices :
          LET ok == ~f /\ DedupIndex \in DOMAIN collections
          IN  /\ call' = [call EXCEPT ![p] =
                    [IngestCall("num_vectors") EXCEPT !.failed = ~ok]]
              /\ ret' = [ret EXCEPT ![p] =
                    IF ok THEN Count(num_vectors(Points))
                    ELSE VectorDbErr(IndexReadError)]
              /\ nfaults' = IF f THEN nfaults + 1 ELSE nfaults
    /\ seq' = [seq EXCEPT ![p] = @ + 1]
    /\ UNCHANGED <<collections, pc, writes>>
    /\ UNCHANGED ingestUnchanged

\* an Index loaded for DedupIndex; its collection exists, or was dropped since
InitIngest ==
    /\ InitTasks
    /\ hash_on \in IngestHashOn
    /\ catalog = (DedupIndex :> IndexRow(hash_on))
    /\ collections \in {(DedupIndex :> EmptyFn) @@ OtherCollections, OtherCollections}
    /\ upserts = 0
    /\ textsSeen = {}
    /\ lastUpsert = None
    /\ writes = {}

NextIngest ==
    \E p \in Procs :
        \/ AddTexts(p)
        \/ Split(p)
        \/ GenerateEmbeddings(p)
        \/ Upsert(p)
        \/ Search(p)
        \/ NumVectors(p)

SpecIngest == InitIngest /\ [][NextIngest]_vars

----------------------------------------------------------------------------
(* Claims *)

Finishes(p) == pc[p] # "idle" /\ pc'[p] = "idle"
Starts(p, op) == seq'[p] # seq[p] /\ call'[p].op = op

\* C1: when the vector store's create_collection fails inside create_index,
\* the call returns an error, commits nothing, and the name whose row it had
\* inserted is NotFound for get_index.
C1_AtomicCreation ==
    [][\A p \in Procs :
          (Finishes(p) /\ call[p].cc = "fail") =>
             /\ IsErr(ret'[p])
             /\ catalog' = catalog
             /\ tx'[p] = NoTx
             /\ (call[p].ins = "ok" =>
                    get_index(catalog', call[p].name) = IndexNotFound(call[p].name))]_vars

C1_Witness ==
    \E p \in Procs :
        /\ pc[p] = "idle"
        /\ call[p].op = "create_index"
        /\ ~call[p].present0
        /\ call[p].ins = "ok"
        /\ call[p].cc = "fail"
        /\ ret[p] = VectorDbErr(IndexCreationError)
        /\ get_index(catalog, call[p].name) = IndexNotFound(call[p].name)

\* C2: a create_index for a name that is already in the catalog returns
\* IndexAlreadyExists(name) (the metadata store answering), and no step ever
\* changes the fields of a row that is in the catalog.
C2_Uniqueness ==
    [][/\ \A p \in Procs :
             (Finishes(p) /\ call[p].op = "create_index" /\ call[p].present0
                 /\ ~call'[p].fault) =>
                /\ ret'[p] = IndexAlreadyExists(call[p].name)
                /\ catalog' = catalog
       /\ \A n \in DOMAIN catalog :
             n \in DOMAIN catalog' /\ get_index(catalog', n) = get_index(catalog, n)]_vars

C2_Witness ==
    \E p \in Procs :
        /\ pc[p] = "idle"
        /\ call[p].op = "create_index"
        /\ call[p].present0
        /\ ret[p] = IndexAlreadyExists(call[p].name)
        /\ call[p].name \in DOMAIN catalog
        /\ catalog[call[p].name] # ActiveModel(call[p])

\* C3: whenever the row insert of create_index fails (uniqueness violation or
\* any other persistence failure) the call returns an error and leaves the
\* catalog unchanged.
C3_InsertErrorsPropagated ==
    [][\A p \in Procs :
          (Finishes(p) /\ call[p].ins \in {"unique", "other"}) =>
             (IsErr(ret'[p]) /\ catalog' = catalog)]_vars

\* C8: drop_index of a collection that does not exist returns Ok and changes
\* nothing; only a failing backend yields IndexDeletionError.
C8_IdempotentDrop ==
    [][\A p \in Procs :
          Starts(p, "drop_index") =>
             /\ (~call'[p].present0 /\ ~call'[p].fault) =>
                   (ret'[p] = Ok /\ collections' = collections /\ catalog' = catalog)
             /\ ret'[p] # Ok =>
                   (call'[p].fault /\ ret'[p] = VectorDbErr(IndexDeletionError))]_vars

C8_Witness ==
    \E p, q \in Procs :
        /\ p # q
        /\ call[p].op = "drop_index" /\ call[p].present0 /\ ret[p] = Ok
        /\ call[q].op = "drop_index" /\ ~call[q].present0 /\ ret[q] = Ok
        /\ call[q].name = call[p].name
        /\ ~call[q].fault
        /\ call[p].name \notin DOMAIN collections

\* C9: create_index with a splitter kind that cannot be resolved returns the
\* splitter's error at once: no transaction is begun, the catalog and the
\* vector store are unchanged, and no call with such a splitter is ever
\* inside the repository.
C9_FailFastValidation ==
    /\ [](\A p \in Procs : pc[p] # "idle" => get_splitter(call[p].text_splitter))
    /\ [][\A p \in Procs :
             (Starts(p, "create_index") /\ ~get_splitter(call'[p].text_splitter)) =>
                /\ ret'[p] = TextSplitterError
                /\ pc'[p] = "idle"
                /\ tx' = tx
                /\ catalog' = catalog
                /\ collections' = collections]_vars

C9_Witness ==
    \E p \in Procs :
        /\ call[p].op = "create_index"
        /\ call[p].text_splitter = "unsupported"
        /\ ret[p] = TextSplitterError
        /\ pc[p] = "idle"
        /\ tx[p] = NoTx

\* C10: with healthy stores, of the create_index calls for one name exactly
\* one returns Ok, every other one returns IndexAlreadyExists, and the catalog
\* row of the name holds the winner's fields.
C10_RacingCreators ==
    nfaults = 0 =>
        \A n \in Names :
            /\ tally[n].ok <= 1
            /\ tally[n].other = 0
            /\ tally[n].exists > 0 => tally[n].ok = 1
            /\ tally[n].ok = 1 =>
                  (n \in DOMAIN catalog /\ Some(catalog[n]) = tally[n].winner)
            /\ (tally[n].ok = 0 /\ n \notin DOMAIN catalog) =>
                  \A p \in Procs : ret[p] # IndexAlreadyExists(n)

C10_Witness ==
    \E n \in Names :
        /\ nfaults = 0
        /\ n \in raced
        /\ \A p \in Procs : pc[p] = "idle" /\ call[p].name = n
        /\ tally[n].ok = 1
        /\ tally[n].exists = 1
        /\ \E p, q \in Procs :
              /\ ret[p] = Ok
              /\ ret[q] = IndexAlreadyExists(n)
              /\ catalog[n] = ActiveModel(call[p])
              /\ catalog[n] # ActiveModel(call[q])

----------------------------------------------------------------------------
(* Claims about the record id *)

HasKeys(attrs, hon) == \A i \in DOMAIN hon : hon[i] \in DOMAIN attrs
DedupValues(attrs, hon) == [i \in DOMAIN hon |-> attrs[hon[i]]]

\* the id rule of the specification: the values of the dedup fields that the
\* metadata holds, concatenated in dedup-field order
RECURSIVE ConcatInOrder(_, _)
ConcatInOrder(attrs, hon) ==
    IF Len(hon) = 0 THEN ""
    ELSE (IF Head(hon) \in DOMAIN attrs THEN attrs[Head(hon)] ELSE "")
         \o ConcatInOrder(attrs, Tail(hon))

\* C4: on a collection with dedup fields [user_id, url], upserts with the
\* same values for those fields never leave more than one record, and the
\* record holds the text of the last such upsert.
C4_IdempotentIngestion ==
    hash_on = <<"user_id", "url">> =>
        /\ \A i, j \in DOMAIN Points :
              (/\ HasKeys(Points[i].metadata, hash_on)
               /\ HasKeys(Points[j].metadata, hash_on)
               /\ DedupValues(Points[i].metadata, hash_on)
                     = DedupValues(Points[j].metadata, hash_on)) => i = j
        /\ (lastUpsert # None /\ HasKeys(lastUpsert[1].attrs, hash_on)) =>
              \E i \in DOMAIN Points :
                 /\ HasKeys(Points[i].metadata, hash_on)
                 /\ DedupValues(Points[i].metadata, hash_on)
                       = DedupValues(lastUpsert[1].attrs, hash_on)
                 /\ Points[i].text = lastUpsert[1].text

\* C5: with no dedup fields every record id is the hash of the record's text,
\* whatever the metadata, so the collection holds one record per distinct text.
C5_NoDedupFallback ==
    hash_on = <<>> =>
        /\ \A id \in DOMAIN Points : id = Md5Hex(Points[id].text)
        /\ Cardinality(DOMAIN Points) = Cardinality(textsSeen)

\* C6: with dedup fields, every record id is the hash of the metadata values
\* of the dedup fields concatenated in dedup-field order.
C6_IdPureFunction ==
    hash_on # <<>> =>
        \A id \in DOMAIN Points :
            id = Md5Hex(ConcatInOrder(Points[id].metadata, hash_on))

\* C7: with dedup fields, one add_embedding call adds at most one record.
C7_Collapsing ==
    [][hash_on # <<>> =>
          Cardinality(DOMAIN Points') <= Cardinality(DOMAIN Points) + 1]_vars

----------------------------------------------------------------------------
(* Claims about the creation protocol, continued *)

\* C13: while no collection is dropped administratively, every row a catalog
\* reader can see has its collection in the vector store.
C13_NoPartialCreation ==
    \A n \in DOMAIN catalog : n \in DOMAIN collections

C13_Witness ==
    \E n \in Names, p \in Procs :
        /\ n \in DOMAIN catalog
        /\ n \in DOMAIN collections
        /\ nfaults > 0
        /\ call[p].op = "create_index"
        /\ call[p].cc = "fail"
        /\ pc[p] = "idle"
        /\ call[p].name \notin DOMAIN catalog

\* C17: inside one create_index call the steps are begin, insert,
\* create_collection, commit in that order; a commit is attempted only after
\* create_collection succeeded, the catalog changes only in such a commit, and
\* a call whose create_collection failed goes to the rollback and never commits.
C17_StepOrdering ==
    /\ [](\A p \in Procs :
             call[p].op = "create_index" =>
                /\ (call[p].ins # "none" /\ pc[p] # "idle") => tx[p].open
                /\ call[p].cc # "none" => call[p].ins \in {"ok", "other"}
                /\ pc[p] = "create_collection" => (call[p].ins # "none" /\ call[p].cc = "none")
                /\ pc[p] = "commit" => call[p].cc = "ok"
                /\ call[p].cc = "fail" => pc[p] \in {"rollback_vdb", "idle"})
    /\ [][/\ catalog' # catalog =>
                \E p \in Procs :
                   pc[p] = "commit" /\ pc'[p] = "idle" /\ call[p].cc = "ok"
          /\ \A p \in Procs :
                (pc[p] = "rollback_vdb" /\ pc'[p] # pc[p]) =>
                   (pc'[p] = "idle" /\ tx'[p] = NoTx /\ catalog' = catalog)]_vars

C17_Witness ==
    \E p \in Procs :
        /\ pc[p] = "commit"
        /\ call[p].ins = "ok"
        /\ call[p].cc = "ok"
        /\ tx[p].open
        /\ tx[p].rows = {ActiveModel(call[p])}
        /\ call[p].name \in DOMAIN collections
        /\ call[p].name \notin DOMAIN catalog

\* C19: a create_index whose insert hit the uniqueness constraint never calls
\* the vector store: none of its steps changes a collection or its records.
C19_NoStoreCallOnConflict ==
    /\ [](\A p \in Procs :
             (call[p].op = "create_index" /\ call[p].ins = "unique") =>
                (call[p].cc = "none" /\ pc[p] \in {"rollback_exists", "idle"}))
    /\ [][\A p \in Procs :
             (pc'[p] # pc[p] /\ call'[p].op = "create_index"
                 /\ call'[p].ins = "unique") =>
                collections' = collections]_vars

C19_Witness ==
    \E p \in Procs :
        /\ pc[p] = "idle"
        /\ call[p].op = "create_index"
        /\ call[p].ins = "unique"
        /\ call[p].cc = "none"
        /\ ret[p] = IndexAlreadyExists(call[p].name)
        /\ call[p].name \in DOMAIN collections

WritesOf(p, n) == {w \in writes : w.by = p /\ w.n = n}

\* C11: an add_texts call that fails at batch i returns the error of the failing
\* step and stops; that step changes no record, every earlier batch of the call
\* has been upserted and no record of batch i or of a later batch is written.
C11_BatchIndependence ==
    /\ [](\A p \in Procs :
             (call[p].op = "add_texts" /\ call[p].failed) =>
                /\ pc[p] = "idle"
                /\ IsErr(ret[p])
                /\ \A w \in WritesOf(p, seq[p]) : w.batch < call[p].i
                /\ \A j \in 1..(call[p].i - 1) :
                      \E w \in WritesOf(p, seq[p]) : w.batch = j)
    /\ [][\A p \in Procs :
             (call[p].op = "add_texts" /\ pc[p] # "idle" /\ call'[p].failed) =>
                /\ collections' = collections
                /\ writes' = writes
                /\ pc[p] = "split" => ret'[p] = TextSplitterError
                /\ pc[p] = "embed" => ret'[p] = EmbeddingGeneratorError
                /\ pc[p] = "upsert" => ret'[p].tag = "VectorDb"]_vars

C11_Witness ==
    \E p \in Procs :
        /\ call[p].op = "add_texts"
        /\ call[p].failed
        /\ pc[p] = "idle"
        /\ call[p].i = 2
        /\ IsErr(ret[p])
        /\ \E w \in WritesOf(p, seq[p]) :
              /\ w.batch = 1
              /\ w.id \in DOMAIN Points
              /\ Points[w.id] = w.payload

Min(a, b) == IF a < b THEN a ELSE b

\* C12: a search the backend answers returns exactly min(k, number of records)
\* results, at most k, one per scored point in the backend's order, each the
\* text and metadata of that point; fewer than k records is no error.
C12_SearchResults ==
    [][\A p \in Procs :
          (seq'[p] # seq[p] /\ call'[p].op = "search" /\ ~call'[p].failed) =>
             /\ ret'[p].tag = "Results"
             /\ Len(ret'[p].results) = Min(call'[p].k, Cardinality(DOMAIN Points))
             /\ Len(ret'[p].results) <= call'[p].k
             /\ Len(call'[p].hits) = Len(ret'[p].results)
             /\ \A i \in DOMAIN call'[p].hits :
                   /\ call'[p].hits[i] \in DOMAIN Points
                   /\ ret'[p].results[i].texts = Points[call'[p].hits[i]].text
                   /\ ret'[p].results[i].metadata = Points[call'[p].hits[i]].metadata
             /\ \A i, j \in DOMAIN call'[p].hits :
                   i # j => call'[p].hits[i] # call'[p].hits[j]]_vars

\* the scenario of test_qdrant_search_basic: three texts ingested, k = 1
C12_Witness ==
    \E p \in Procs :
        /\ hash_on = <<>>
        /\ DOMAIN Points = {Md5Hex("hello world"), Md5Hex("hello pipe"), Md5Hex("nba")}
        /\ \A id \in DOMAIN Points : Points[id].metadata = NoMetadata
        /\ call[p].op = "search"
        /\ call[p].k = 1
        /\ ret[p].tag = "Results"
        /\ Len(ret[p].results) = 1
        /\ ret[p].results[1].texts = "hello pipe"

\* the error kind the vector-store contract gives each operation
ContractKind(op) ==
    IF op = "add_texts" THEN IndexWriteError
    ELSE IF op \in {"search", "num_vectors"} THEN IndexReadError
    ELSE IF op = "create_index" THEN IndexCreationError
    ELSE IndexDeletionError

\* C14: every vector-store error a call returns has the kind of the call's own
\* operation: WriteError for upsert, ReadError for search and count,
\* CreationError for create_collection.
C14_ErrorKinds ==
    \A p \in Procs :
        (ret[p].tag = "VectorDb" /\ call[p].op # "none") =>
            ret[p].kind = ContractKind(call[p].op)

\* C15: the count of a created collection is the number of distinct ids
\* upserted so far: a count call returns it, an upsert raises it by the number
\* of ids that were not present and leaves it unchanged for ids already there.
C15_ExactCount ==
    /\ [](DedupIndex \in DOMAIN collections =>
             num_vectors(Points) = Cardinality({w.id : w \in writes}))
    /\ [][/\ \A p \in Procs :
                (seq'[p] # seq[p] /\ call'[p].op = "num_vectors" /\ ~call'[p].failed) =>
                   ret'[p] = Count(Cardinality({w.id : w \in writes}))
          /\ writes' # writes =>
                num_vectors(Points') = num_vectors(Points)
                   + Cardinality({w.id : w \in writes' \ writes} \ DOMAIN Points)]_vars

C15_Witness ==
    \E p, q \in Procs :
        /\ call[p].op = "num_vectors"
        /\ ret[p] = Count(1)
        /\ Cardinality(writes) > 1
        /\ call[q].op = "add_texts"
        /\ ret[q] = Ok

\* C18: the chunk index stored with a record is the position of the chunk
\* within its own source document.
C18_ChunkIndexWithinDocument ==
    \A w \in writes : w.payload.chunk = w.pos

\* C20: every record of the collection is, in text, chunk index and metadata,
\* the payload one single upsert wrote for its id, and an upsert leaves under
\* each of its ids a payload of its own, whoever wrote that id before.
C20_LastWriterWins ==
    /\ [](\A id \in DOMAIN Points :
             \E w \in writes : w.id = id /\ w.payload = Points[id])
    /\ [][writes' # writes =>
             LET W == writes' \ writes IN
                /\ \A w \in W : \E v \in W : v.id = w.id /\ Points'[w.id] = v.payload
                /\ \A id \in DOMAIN Points :
                      id \notin {w.id : w \in W} => Points'[id] = Points[id]]_vars

\* p is still in its call and q's upsert replaced the record p wrote
C20_Witness ==
    \E p, q \in Procs :
        /\ p # q
        /\ pc[p] # "idle"
        /\ call[p].op = "add_texts"
        /\ call[q].op = "add_texts"
        /\ \E w \in WritesOf(p, seq[p]), v \in WritesOf(q, seq[q]) :
              /\ w.id = v.id
              /\ w.payload.text # v.payload.text
              /\ Points[w.id] = v.payload

DedupFields(u_params) == IF u_params = None THEN <<>> ELSE u_params[1]

\* C16: once create_index has returned Ok for dedup fields D (a list, or none),
\* load of that name gives an Index bound to the name whose hash_on is D in the
\* same order (empty for none); load of a name that is not in the catalog
\* returns IndexNotFound.
C16_DedupRoundTrip ==
    /\ [](\A p \in Procs :
             (pc[p] = "idle" /\ call[p].op = "create_index" /\ ret[p] = Ok) =>
                LET r == load(catalog, call[p].name) IN
                   /\ r.tag = "Loaded"
                   /\ r.index.name = call[p].name
                   /\ r.index.hash_on = DedupFields(call[p].unique_params))
    /\ [][\A p \in Procs :
             (Starts(p, "load") /\ ~call'[p].fault) =>
                /\ call'[p].name \notin DOMAIN catalog =>
                      ret'[p] = IndexNotFound(call'[p].name)
                /\ \A q \in Procs :
                      (pc[q] = "idle" /\ call[q].op = "create_index" /\ ret[q] = Ok
                          /\ call[q].name = call'[p].name) =>
                         /\ ret'[p].tag = "Loaded"
                         /\ ret'[p].index.hash_on = DedupFields(call[q].unique_params)]_vars

\* the same for the calls whose row insert did not fail
C16_RoundTripOfInsertedRows ==
    /\ [](\A p \in Procs :
             (pc[p] = "idle" /\ call[p].op = "create_index" /\ ret[p] = Ok
                 /\ call[p].ins = "ok") =>
                LET r == load(catalog, call[p].name) IN
                   /\ r.tag = "Loaded"
                   /\ r.index.name = call[p].name
                   /\ r.index.hash_on = DedupFields(call[p].unique_params))
    /\ [][\A p \in Procs :
             (Starts(p, "load") /\ ~call'[p].fault) =>
                /\ call'[p].name \notin DOMAIN catalog =>
                      ret'[p] = IndexNotFound(call'[p].name)
                /\ \A q \in Procs :
                      (pc[q] = "idle" /\ call[q].op = "create_index" /\ ret[q] = Ok
                          /\ call[q].ins = "ok" /\ call[q].name = call'[p].name) =>
                         /\ ret'[p].tag = "Loaded"
                         /\ ret'[p].index.hash_on = DedupFields(call[q].unique_params)]_vars

\* C21: when create_index returns and the collection this call created exists
\* without a catalog row for its name, the call's commit failed after
\* create_collection succeeded and the call returned an error.
C21_OnlyDocumentedOrphan ==
    [][\A p \in Procs :
          (Finishes(p) /\ call[p].op = "create_index" /\ call[p].cc = "ok"
              /\ call[p].name \in DOMAIN collections'
              /\ call[p].name \notin DOMAIN catalog') =>
             /\ pc[p] = "commit"
             /\ call[p].ins = "ok"
             /\ ret'[p] = DatabaseError
             /\ IsErr(ret'[p])]_vars

\* C22: whenever create_index returns Ok, the catalog holds a row for the name
\* with exactly the given embedding model, splitter, backend name and dedup
\* fields, and get_index and load of the name succeed.
C22_SuccessImpliesPresence ==
    [][\A p \in Procs :
          (Finishes(p) /\ call[p].op = "create_index" /\ ret'[p] = Ok) =>
             /\ call[p].name \in DOMAIN catalog'
             /\ catalog'[call[p].name] = ActiveModel(call[p])
             /\ get_index(catalog', call[p].name) = Found(ActiveModel(call[p]))
             /\ load(catalog', call[p].name).tag = "Loaded"]_vars

\* a collection without a catalog row that no call in flight is about to commit
Orphan(n) ==
    /\ n \in DOMAIN collections
    /\ n \notin DOMAIN catalog
    /\ \A p \in Procs : ~(pc[p] = "commit" /\ call[p].name = n)

\* C23: while a collection exists without a catalog row, only a drop of that
\* collection ends this; create_collection for an existing collection fails and
\* leads to the rollback; every create_index of the name that returns meanwhile
\* returns an error (the vector store's creation error unless the metadata
\* store failed in that call) and the catalog stays without the row. Once the
\* collection is gone, create_collection succeeds again.
C23_OrphanBlocksCreation ==
    [][/\ \A n \in Names :
             (Orphan(n) /\ ~Orphan(n)') =>
                /\ n \notin DOMAIN collections'
                /\ \E p \in Procs : Starts(p, "drop_index") /\ call'[p].name = n
       /\ \A p \in Procs :
             /\ (pc[p] = "create_collection" /\ pc'[p] # pc[p]
                    /\ call[p].name \in DOMAIN collections) =>
                   /\ call'[p].cc = "fail"
                   /\ pc'[p] = "rollback_vdb"
                   /\ collections' = collections
             /\ (pc[p] = "create_collection" /\ pc'[p] # pc[p]
                    /\ call[p].name \notin DOMAIN collections /\ nfaults' = nfaults) =>
                   /\ call'[p].cc = "ok"
                   /\ pc'[p] = "commit"
             /\ (Finishes(p) /\ call[p].op = "create_index" /\ Orphan(call[p].name)) =>
                   /\ IsErr(ret'[p])
                   /\ call[p].name \notin DOMAIN catalog'
                   /\ ~call'[p].fault => ret'[p] = VectorDbErr(IndexCreationError)
             /\ (Starts(p, "create_index") /\ pc'[p] = "idle") =>
                   (IsErr(ret'[p]) /\ catalog' = catalog)]_vars

\* a create_index of an orphaned name has returned the creation error
C23_Witness ==
    \E p \in Procs :
        /\ pc[p] = "idle"
        /\ call[p].op = "create_index"
        /\ ~call[p].present0
        /\ call[p].ins = "ok"
        /\ call[p].cc = "fail"
        /\ ~call[p].fault
        /\ ret[p] = VectorDbErr(IndexCreationError)
        /\ Orphan(call[p].name)
        /\ tally[call[p].name].other >= 2

Acting(p) == pc'[p] # pc[p] \/ seq'[p] # seq[p]

\* C24: no step of add_texts or search changes the catalog or the set of
\* collections; a search changes no record, and a step of add_texts changes
\* records of the collection named after its Index only.
C24_RuntimeFrame ==
    [][\A p \in Procs :
          (Acting(p) /\ call'[p].op \in {"add_texts", "search"}) =>
             /\ catalog' = catalog
             /\ DOMAIN collections' = DOMAIN collections
             /\ \A c \in DOMAIN collections :
                   c # call'[p].name => collections'[c] = collections[c]
             /\ call'[p].op = "search" => collections' = collections
             /\ pc[p] # "upsert" => collections' = collections]_vars

\* one task has ingested into its collection, the other has searched it
C24_Witness ==
    \E p, q \in Procs :
        /\ call[p].op = "add_texts"
        /\ ret[p] = Ok
        /\ Points # EmptyFn
        /\ call[q].op = "search"
        /\ ret[q].tag = "Results"
        /\ Len(ret[q].results) > 0
        /\ collections = (DedupIndex :> Points) @@ OtherCollections
        /\ catalog = (DedupIndex :> IndexRow(hash_on))

====
